---- MODULE Spec2Model ----
(***************************************************************************)
(* Model of py_gamma_sdk: the sync and async facade clients, their         *)
(* sub-clients, the request/response pipeline (_request), URL resolution   *)
(* and the paginated public-search aggregation.                            *)
(*                                                                         *)
(* A behaviour is one call on a freshly constructed client; no operation   *)
(* keeps state from one call to the next.  A call is split at the          *)
(* transport boundary: the client sends a request (SendRequest), the       *)
(* transport answers with an arbitrary outcome and the handler runs on to  *)
(* its next request or to its end (the Receive... actions).                *)
(***************************************************************************)
EXTENDS Integers, Sequences, FiniteSets, TLC

(***************************************************************************)
(* The state.                                                              *)
(***************************************************************************)
VARIABLES
    handle,       \* the facade's transport handle (_http_client): "open" or "closed"
    value,        \* the argument of parse_flexible_datetime or of a model constructor
    validated,    \* what the datetime validation of each timestamp field was handed
    mode,         \* "sync" (GammaClient) or "async" (AsyncGammaClient)
    op,           \* the operation of the call in progress
    pc,           \* "idle", "send" (about to call the transport), "wait", "done"
    url,          \* resolve_url: its argument, until the slug is on its way
    params,       \* public_search_all: the caller's overrides
    api_params,   \* public_search_all: api_params
    page_count,   \* public_search_all: page_count
    events,       \* public_search_all: events
    pending,      \* the request about to be sent or in flight
    requests,     \* the requests handed to the transport, in order
    exchange,     \* the last transport outcome and what _request made of it
    lookups,      \* resolve_url: the outcomes of its get_by_slug calls
    fetched,      \* public_search_all: the events of every page fetched
    first,        \* public_search_all: what the first public_search returned
    twin,         \* the same call on the facade of the other variant, given the same answers
    result        \* the outcome of the call

vars == << handle, value, validated, mode, op, pc, url, params, api_params, page_count, events, pending,
           requests, exchange, lookups, fetched, first, twin, result >>

(***************************************************************************)
(* Bounds of the model.                                                    *)
(***************************************************************************)
MaxTotal == 3
MaxPageCount == 4
MaxPathLen == 4
MaxStrLen == 4

(***************************************************************************)
(* Program constants.                                                      *)
(***************************************************************************)
DefaultLimitPerType == 20

SPORTS == "/sports"
SPORTS_TEAMS == "/sports/teams"
SPORTS_MARKET_TYPES == "/sports/market-types"
TAGS == "/tags"
TAGS_BY_ID == "/tags/{tag_id}"
TAGS_BY_SLUG == "/tags/slug/{slug}"
TAGS_RELATED_BY_ID == "/tags-related-tag-id/{tag_id}"
TAGS_RELATED_BY_SLUG == "/tags-related-tag-slug/{slug}"
TAGS_RELATED_TO_ID == "/tags/{tag_id}/related"
TAGS_RELATED_TO_SLUG == "/tags/slug/{slug}/related"
EVENTS == "/events"
EVENTS_BY_ID == "/events/{event_id}"
EVENTS_TAGS == "/events/{event_id}/tags"
EVENTS_BY_SLUG == "/events/slug/{slug}"
MARKETS == "/markets"
MARKETS_BY_ID == "/markets/{market_id}"
MARKETS_TAGS == "/markets/{market_id}/tags"
MARKETS_BY_SLUG == "/markets/slug/{slug}"
SERIES == "/series"
SERIES_BY_ID == "/series/{series_id}"
COMMENTS == "/comments"
COMMENTS_BY_ID == "/comments/{comment_id}"
COMMENTS_BY_USER == "/comments/user/{address}"
PROFILES_BY_ADDRESS == "/profiles/{address}"
STATUS == "/status"
SEARCH == "/search"
PUBLIC_SEARCH == "/public-search"

(***************************************************************************)
(* Values.  Every value is a record tagged by t, and a field name always   *)
(* holds values of one type.                                               *)
(*   null   JSON null / Python None                                        *)
(*   str    a Python str: the characters, or the serialisation of a        *)
(*          JSON document (doc)                                            *)
(*   num    a JSON number                                                  *)
(*   obj    a JSON object: the keys present, its "id", and the "events"    *)
(*          and "pagination" entries of a search response                  *)
(*   model  a constructed entity; psr a constructed PublicSearchResponse   *)
(*   list   a JSON array                                                   *)
(***************************************************************************)
None == [t |-> "null"]
NoDoc == [t |-> "nodoc"]
Q == "\""

Text(chars, doc) == [chars |-> chars, doc |-> doc]
PyStr(text) == [t |-> "str", chars |-> text.chars, doc |-> text.doc]
Num(n) == [t |-> "num", n |-> n]
List(items) == [t |-> "list", items |-> items]

NoPagination == [t |-> "null"]
Pagination(keys, total, more) ==
    [t |-> "map", keys |-> keys, totalResults |-> total, hasMore |-> more]

Obj(keys, id, evs, pagination) ==
    [t |-> "obj", keys |-> keys, id |-> id, events |-> evs,
     pagination |-> pagination]

\* the value an object holds under "marketTypes": one type name per id
MarketTypesOf(obj) == List([i \in 1..obj.id |-> PyStr(Text(<<"a">>, NoDoc))])

(***************************************************************************)
(* Outcomes of a call: a returned value or a raised exception.  status 0   *)
(* and NoText stand for the attributes an exception does not carry.        *)
(***************************************************************************)
NoText == [chars |-> <<>>, doc |-> [t |-> "absent"]]
Return(v) == [kind |-> "return", val |-> v, exc |-> "", status |-> 0, text |-> NoText]
Raise(exc, status, text) ==
    [kind |-> "raise", val |-> None, exc |-> exc, status |-> status, text |-> text]
Unset == [kind |-> "unset", val |-> None, exc |-> "", status |-> 0, text |-> NoText]

(***************************************************************************)
(* exceptions.py: GammaError and the classes derived from it.              *)
(***************************************************************************)
GammaErrorClasses == {"GammaError", "GammaAPIError", "NotFoundError", "ValidationError"}

(***************************************************************************)
(* models.py: the mandatory (wire-named) fields of each entity and the     *)
(* construction of an entity from a decoded JSON object.  Unknown keys     *)
(* are ignored; a missing mandatory key is a pydantic ValidationError.     *)
(***************************************************************************)
TagFields == {"id"}
MarketFields == {"id", "question", "conditionId", "slug", "outcomes", "clobTokenIds"}
EventFields == {"id", "slug", "title"}
TeamFields == {"id", "name", "league"}
SportMetadataFields == {"sport"}
SeriesFields == {"id", "title", "slug", "active"}
CommentFields == {"id", "comment", "userAddress"}
ProfileFields == {"proxyWallet"}
PublicSearchMarketFields == {"id", "question", "conditionId", "slug"}
PublicSearchEventFields == {"id", "slug", "title"}

Mandatory(cls) ==
    CASE cls = "Tag" -> TagFields
      [] cls = "Market" -> MarketFields
      [] cls = "Event" -> EventFields
      [] cls = "Team" -> TeamFields
      [] cls = "SportMetadata" -> SportMetadataFields
      [] cls = "Series" -> SeriesFields
      [] cls = "Comment" -> CommentFields
      [] cls = "Profile" -> ProfileFields
      [] cls = "PublicSearchMarket" -> PublicSearchMarketFields
      [] cls = "PublicSearchEvent" -> PublicSearchEventFields

Entity(cls, id) == [t |-> "model", cls |-> cls, id |-> id]

\* PublicSearchResponse(**kwargs): events defaults to [], pagination to None;
\* each event is validated as a PublicSearchEvent (event 0 stands for an item
\* that lacks a mandatory PublicSearchEvent field).
Response(evs, pagination) == [t |-> "psr", events |-> evs, pagination |-> pagination]

PublicSearchResponse(obj) ==
    LET evs == IF "events" \in obj.keys THEN obj.events ELSE <<>>
        pagination == IF "pagination" \in obj.keys THEN obj.pagination ELSE NoPagination
    IN  IF \E i \in 1..Len(evs) : evs[i] = 0
        THEN Raise("pydantic.ValidationError", 0, NoText)
        ELSE Return(Response(evs, pagination))

\* cls(**data)
Construct(cls, data) ==
    IF data.t # "obj" THEN Raise("TypeError", 0, NoText)
    ELSE IF cls = "PublicSearchResponse" THEN PublicSearchResponse(data)
    ELSE IF Mandatory(cls) \subseteq data.keys THEN Return(Entity(cls, data.id))
    ELSE Raise("pydantic.ValidationError", 0, NoText)

\* [cls(**item) for item in items]: the first failing item raises
RECURSIVE ConstructItems(_, _, _)
ConstructItems(cls, items, acc) ==
    IF items = <<>> THEN Return(List(acc))
    ELSE LET r == Construct(cls, Head(items))
         IN  IF r.kind = "raise" THEN r
             ELSE ConstructItems(cls, Tail(items), Append(acc, r.val))

\* [cls(**item) for item in data]: iterating a dict yields its keys and
\* iterating a str its characters, neither of which is a mapping
ConstructList(cls, data) ==
    CASE data.t = "list" -> ConstructItems(cls, data.items, <<>>)
      [] data.t = "obj" ->
            IF data.keys = {} THEN Return(List(<<>>)) ELSE Raise("TypeError", 0, NoText)
      [] data.t = "str" ->
            IF data.chars = <<>> /\ data.doc.t = "nodoc"
            THEN Return(List(<<>>)) ELSE Raise("TypeError", 0, NoText)
      [] OTHER -> Raise("TypeError", 0, NoText)

(***************************************************************************)
(* The transport (httpx): a call to request() raises, or returns a         *)
(* response with a status code, a Content-Type header and a body.  A body  *)
(* is a text: a string of characters, or the serialisation of a JSON       *)
(* document that is not itself a string.                                   *)
(***************************************************************************)
TransportError == [kind |-> "exc", status |-> 0, ctype |-> "", body |-> Text(<<>>, NoDoc)]
HttpResponse(status, ctype, body) ==
    [kind |-> "resp", status |-> status, ctype |-> ctype, body |-> body]
NoOutcome == [kind |-> "none", status |-> 0, ctype |-> "", body |-> Text(<<>>, NoDoc)]

\* "application/json" in content_type
IsJsonContentType(ctype) == ctype \in {"application/json", "application/json; charset=utf-8"}

\* httpx Response.raise_for_status raises HTTPStatusError unless is_success
IsSuccess(status) == 200 <= status /\ status <= 299

\* str.lstrip('"') / str.rstrip('"') / str.strip('"'): every leading and
\* trailing quote character is removed
RECURSIVE LStripQuotes(_)
LStripQuotes(chars) ==
    IF chars # <<>> /\ Head(chars) = Q THEN LStripQuotes(Tail(chars)) ELSE chars

RECURSIVE RStripQuotes(_)
RStripQuotes(chars) ==
    IF chars # <<>> /\ chars[Len(chars)] = Q
    THEN RStripQuotes(SubSeq(chars, 1, Len(chars) - 1)) ELSE chars

StripQuotes(text) ==
    IF text.doc.t = "nodoc"
    THEN Text(RStripQuotes(LStripQuotes(text.chars)), NoDoc)
    ELSE text

\* response.json(): a serialised document decodes to the document, a quoted
\* string without inner quotes to that string, anything else is a
\* JSONDecodeError
JsonDecode(text) ==
    IF text.doc.t # "nodoc" THEN Return(text.doc)
    ELSE LET c == text.chars
         IN  IF /\ Len(c) >= 2
                /\ c[1] = Q
                /\ c[Len(c)] = Q
                /\ \A i \in 2..(Len(c) - 1) : c[i] # Q
             THEN Return(PyStr(Text(SubSeq(c, 2, Len(c) - 1), NoDoc)))
             ELSE Raise("JSONDecodeError", 0, NoText)

(***************************************************************************)
(* GammaClient._request and AsyncGammaClient._request: the outcome of      *)
(* _request for a transport outcome.                                       *)
(***************************************************************************)
RequestNo404(out) ==
    IF out.kind = "exc" THEN Raise("GammaAPIError", 0, NoText)
    ELSE IF ~IsSuccess(out.status) THEN Raise("GammaAPIError", out.status, out.body)
    ELSE IF IsJsonContentType(out.ctype)
         THEN LET d == JsonDecode(out.body)
              IN  IF d.kind = "raise" THEN Raise("GammaAPIError", 0, NoText) ELSE d
         ELSE Return(PyStr(StripQuotes(out.body)))

Request(out) ==
    IF out.kind = "exc" THEN Raise("GammaAPIError", 0, NoText)
    ELSE IF out.status = 404
         THEN IF "NotFoundError" \in GammaErrorClasses
              THEN Raise("NotFoundError", 404, NoText)
              ELSE Raise("GammaAPIError", 0, NoText)
    ELSE IF ~IsSuccess(out.status) THEN Raise("GammaAPIError", out.status, out.body)
    ELSE IF IsJsonContentType(out.ctype)
         THEN LET d == JsonDecode(out.body)
              IN  IF d.kind = "raise" THEN Raise("GammaAPIError", 0, NoText) ELSE d
         ELSE Return(PyStr(StripQuotes(out.body)))

AsyncRequest(out) ==
    IF out.kind = "exc" THEN Raise("GammaAPIError", 0, NoText)
    ELSE IF out.status = 404
         THEN IF "NotFoundError" \in GammaErrorClasses
              THEN Raise("NotFoundError", 404, NoText)
              ELSE Raise("GammaAPIError", 0, NoText)
    ELSE IF ~IsSuccess(out.status) THEN Raise("GammaAPIError", out.status, out.body)
    ELSE IF IsJsonContentType(out.ctype)
         THEN LET d == JsonDecode(out.body)
              IN  IF d.kind = "raise" THEN Raise("GammaAPIError", 0, NoText) ELSE d
         ELSE Return(PyStr(StripQuotes(out.body)))

(***************************************************************************)
(* The sub-client operations: route, shape of the decoding and entity      *)
(* class.  Shapes: "list" builds one entity per item of data, "single"     *)
(* builds one entity from data, "raw" returns data, "market_types" reads   *)
(* the key "marketTypes" of data, "market_by_slug" is markets.get_by_slug. *)
(***************************************************************************)
Operation(name, route, shape, cls) ==
    [name |-> name, route |-> route, shape |-> shape, cls |-> cls]

SubClientOps == {
    Operation("sports.list_teams", SPORTS_TEAMS, "list", "Team"),
    Operation("sports.get_metadata", SPORTS, "list", "SportMetadata"),
    Operation("sports.get_market_types", SPORTS_MARKET_TYPES, "market_types", ""),
    Operation("tags.list", TAGS, "list", "Tag"),
    Operation("tags.get_by_id", TAGS_BY_ID, "single", "Tag"),
    Operation("tags.get_by_slug", TAGS_BY_SLUG, "single", "Tag"),
    Operation("tags.get_related_by_id", TAGS_RELATED_BY_ID, "raw", ""),
    Operation("tags.get_related_by_slug", TAGS_RELATED_BY_SLUG, "raw", ""),
    Operation("tags.get_tags_related_to_id", TAGS_RELATED_TO_ID, "list", "Tag"),
    Operation("tags.get_tags_related_to_slug", TAGS_RELATED_TO_SLUG, "list", "Tag"),
    Operation("events.list", EVENTS, "list", "Event"),
    Operation("events.get_by_id", EVENTS_BY_ID, "single", "Event"),
    Operation("events.get_tags", EVENTS_TAGS, "list", "Tag"),
    Operation("events.get_by_slug", EVENTS_BY_SLUG, "single", "Event"),
    Operation("markets.list", MARKETS, "list", "Market"),
    Operation("markets.get_by_id", MARKETS_BY_ID, "single", "Market"),
    Operation("markets.get_tags", MARKETS_TAGS, "list", "Tag"),
    Operation("markets.get_by_slug", MARKETS_BY_SLUG, "market_by_slug", "Market"),
    Operation("series.list", SERIES, "list", "Series"),
    Operation("series.get_by_id", SERIES_BY_ID, "single", "Series"),
    Operation("comments.list", COMMENTS, "list", "Comment"),
    Operation("comments.get_by_id", COMMENTS_BY_ID, "single", "Comment"),
    Operation("comments.get_by_user", COMMENTS_BY_USER, "list", "Comment"),
    Operation("profiles.get_by_address", PROFILES_BY_ADDRESS, "single", "Profile") }

AsyncSubClientOps == {
    Operation("sports.list_teams", SPORTS_TEAMS, "list", "Team"),
    Operation("sports.get_metadata", SPORTS, "list", "SportMetadata"),
    Operation("sports.get_market_types", SPORTS_MARKET_TYPES, "market_types", ""),
    Operation("tags.list", TAGS, "list", "Tag"),
    Operation("tags.get_by_id", TAGS_BY_ID, "single", "Tag"),
    Operation("tags.get_by_slug", TAGS_BY_SLUG, "single", "Tag"),
    Operation("tags.get_related_by_id", TAGS_RELATED_BY_ID, "raw", ""),
    Operation("tags.get_related_by_slug", TAGS_RELATED_BY_SLUG, "raw", ""),
    Operation("tags.get_tags_related_to_id", TAGS_RELATED_TO_ID, "list", "Tag"),
    Operation("tags.get_tags_related_to_slug", TAGS_RELATED_TO_SLUG, "list", "Tag"),
    Operation("events.list", EVENTS, "list", "Event"),
    Operation("events.get_by_id", EVENTS_BY_ID, "single", "Event"),
    Operation("events.get_tags", EVENTS_TAGS, "list", "Tag"),
    Operation("events.get_by_slug", EVENTS_BY_SLUG, "single", "Event"),
    Operation("markets.list", MARKETS, "list", "Market"),
    Operation("markets.get_by_id", MARKETS_BY_ID, "single", "Market"),
    Operation("markets.get_tags", MARKETS_TAGS, "list", "Tag"),
    Operation("markets.get_by_slug", MARKETS_BY_SLUG, "market_by_slug", "Market"),
    Operation("series.list", SERIES, "list", "Series"),
    Operation("series.get_by_id", SERIES_BY_ID, "single", "Series"),
    Operation("comments.list", COMMENTS, "list", "Comment"),
    Operation("comments.get_by_id", COMMENTS_BY_ID, "single", "Comment"),
    Operation("comments.get_by_user", COMMENTS_BY_USER, "list", "Comment"),
    Operation("profiles.get_by_address", PROFILES_BY_ADDRESS, "single", "Profile") }

\* get_status, search and public_search of the facade (both variants)
FacadeOps == {
    Operation("get_status", STATUS, "raw", ""),
    Operation("search", SEARCH, "raw", ""),
    Operation("public_search", PUBLIC_SEARCH, "single", "PublicSearchResponse") }

AsyncFacadeOps == {
    Operation("get_status", STATUS, "raw", ""),
    Operation("search", SEARCH, "raw", ""),
    Operation("public_search", PUBLIC_SEARCH, "single", "PublicSearchResponse") }

\* data.get("marketTypes", [])
GetMarketTypes(data) ==
    IF data.t # "obj" THEN Raise("AttributeError", 0, NoText)
    ELSE IF "marketTypes" \in data.keys THEN Return(MarketTypesOf(data))
    ELSE Return(List(<<>>))

\* MarketsClient.get_by_slug, after _request has returned data
MarketsGetBySlugFirstOnly(data) ==
    IF data.t = "list"
    THEN IF data.items # <<>> THEN Construct("Market", data.items[1])
         ELSE Raise("IndexError", 0, NoText)
    ELSE Construct("Market", data)

MarketsGetBySlug(data) ==
    IF data.t = "list"
    THEN IF data.items # <<>> THEN Construct("Market", data.items[1]) ELSE Return(None)
    ELSE Construct("Market", data)

AsyncMarketsGetBySlugObjectOnly(data) == Construct("Market", data)

AsyncMarketsGetBySlug(data) ==
    IF data.t = "list"
    THEN IF data.items # <<>> THEN Construct("Market", data.items[1]) ELSE Return(None)
    ELSE Construct("Market", data)

\* what a sub-client or facade operation does with the data _request returned
Decode(m, operation, data) ==
    CASE operation.shape = "list" -> ConstructList(operation.cls, data)
      [] operation.shape = "single" -> Construct(operation.cls, data)
      [] operation.shape = "raw" -> Return(data)
      [] operation.shape = "market_types" -> GetMarketTypes(data)
      [] operation.shape = "market_by_slug" ->
            IF m = "sync" THEN MarketsGetBySlug(data) ELSE AsyncMarketsGetBySlug(data)

\* the outcome of an operation for the outcome of its _request call: an
\* exception of _request propagates unmodified
Perform(m, operation, res) ==
    IF res.kind = "raise" THEN res ELSE Decode(m, operation, res.val)

(***************************************************************************)
(* URL resolution.  A URL is the path urlparse extracts from it, a string  *)
(* over the characters "/" and the words below, or a URL on which          *)
(* urlparse raises.                                                        *)
(***************************************************************************)
Url(parses, path) == [parses |-> parses, path |-> path]
NoSlug == [found |-> FALSE, slug |-> <<>>]
Slug(s) == [found |-> TRUE, slug |-> s]

\* str.strip("/")
RECURSIVE LStripSlashes(_)
LStripSlashes(path) ==
    IF path # <<>> /\ Head(path) = "/" THEN LStripSlashes(Tail(path)) ELSE path

RECURSIVE RStripSlashes(_)
RStripSlashes(path) ==
    IF path # <<>> /\ path[Len(path)] = "/"
    THEN RStripSlashes(SubSeq(path, 1, Len(path) - 1)) ELSE path

StripSlashes(path) == RStripSlashes(LStripSlashes(path))

\* str.split("/"): the pieces between the slashes, empty pieces included
RECURSIVE Split(_)
Split(path) ==
    IF \A i \in 1..Len(path) : path[i] # "/" THEN << path >>
    ELSE LET i == CHOOSE j \in 1..Len(path) :
                      path[j] = "/" /\ \A k \in 1..(j - 1) : path[k] # "/"
         IN  << SubSeq(path, 1, i - 1) >> \o Split(SubSeq(path, i + 1, Len(path)))

\* GammaClient._extract_slug_from_url / AsyncGammaClient._extract_slug_from_url
ExtractSlugFirstPart(u) ==
    IF ~u.parses THEN NoSlug
    ELSE LET path_parts == Split(StripSlashes(u.path))
         IN  IF Len(path_parts) >= 2 /\ path_parts[1] \in {<<"market">>, <<"event">>}
             THEN Slug(path_parts[2])
             ELSE NoSlug

ExtractSlugFromUrl(u) ==
    IF ~u.parses THEN NoSlug
    ELSE LET path_parts == Split(StripSlashes(u.path))
         IN  IF Len(path_parts) >= 2 /\ path_parts[1] \in {<<"market">>, <<"event">>}
             THEN Slug(path_parts[Len(path_parts)])
             ELSE NoSlug

AsyncExtractSlugFromUrl(u) ==
    IF ~u.parses THEN NoSlug
    ELSE LET path_parts == Split(StripSlashes(u.path))
         IN  IF Len(path_parts) >= 2 /\ path_parts[1] \in {<<"market">>, <<"event">>}
             THEN Slug(path_parts[Len(path_parts)])
             ELSE NoSlug

\* "if not slug": None and the empty string are both falsy
Falsy(slug) == ~slug.found \/ slug.slug = <<>>

(***************************************************************************)
(* resolve_url after the market lookup and after the event lookup: what    *)
(* the try/except blocks do with the outcome of get_by_slug.               *)
(***************************************************************************)
Step(done, outcome) == [done |-> done, result |-> outcome]

AfterMarketLookupFallThrough(lookup) ==
    IF lookup.kind = "return" /\ lookup.val.t # "null"
    THEN Step(TRUE, Return(lookup.val)) ELSE Step(FALSE, Unset)

AfterMarketLookup(lookup) ==
    IF lookup.kind = "return" THEN Step(TRUE, Return(lookup.val)) ELSE Step(FALSE, Unset)

AsyncAfterMarketLookup(lookup) ==
    IF lookup.kind = "return" THEN Step(TRUE, Return(lookup.val)) ELSE Step(FALSE, Unset)

AfterEventLookup(lookup) ==
    IF lookup.kind = "return" THEN Step(TRUE, Return(lookup.val)) ELSE Step(TRUE, Return(None))

AsyncAfterEventLookup(lookup) ==
    IF lookup.kind = "return" THEN Step(TRUE, Return(lookup.val)) ELSE Step(TRUE, Return(None))

(***************************************************************************)
(* public_search_all.                                                      *)
(***************************************************************************)
NoPageCount == -1

\* the caller's overrides: the keys given and their values
Params(keys, limit_per_type, page) ==
    [keys |-> keys, limit_per_type |-> limit_per_type, page |-> page]
NoParams == Params({}, 0, 0)

\* api_params: the defaults, then every caller parameter written over them
ApiParams(p) ==
    [page |-> IF "page" \in p.keys THEN p.page ELSE 1,
     limit_per_type |-> IF "limit_per_type" \in p.keys
                        THEN p.limit_per_type ELSE DefaultLimitPerType]
NoApiParams == [page |-> 0, limit_per_type |-> 0]

\* data.pagination["totalResults"] // api_params["limit_per_type"] + 1
PageCount(totalResults, limit_per_type) == (totalResults \div limit_per_type) + 1

\* range(2, page_count)
PageRangeInclusive(count) ==
    IF count >= 2 THEN [i \in 1..(count - 1) |-> i + 1] ELSE <<>>

PageRange(count) ==
    IF count > 2 THEN [i \in 1..(count - 2) |-> i + 1] ELSE <<>>

\* events.extend(data.events)
ExtendDedup(evs, more) ==
    evs \o SelectSeq(more, LAMBDA e : \A i \in 1..Len(evs) : evs[i] # e)

Extend(evs, more) == evs \o more

\* public_search_all from the return of the first public_search to the loop
Decision(done, outcome, count, evs) ==
    [done |-> done, result |-> outcome, page_count |-> count, events |-> evs]

FirstPage(data, api) ==
    IF data.kind = "raise" THEN Decision(TRUE, data, NoPageCount, <<>>)
    ELSE LET pagination == data.val.pagination
         IN  IF pagination.t = "null"
             THEN Decision(TRUE, Return(data.val), NoPageCount, <<>>)
             ELSE IF "totalResults" \notin pagination.keys
             THEN Decision(TRUE, Raise("KeyError", 0, NoText), NoPageCount, <<>>)
             ELSE IF api.limit_per_type = 0
             THEN Decision(TRUE, Raise("ZeroDivisionError", 0, NoText), NoPageCount, <<>>)
             ELSE LET count == PageCount(pagination.totalResults, api.limit_per_type)
                  IN  IF "hasMore" \notin pagination.keys
                      THEN Decision(TRUE, Raise("KeyError", 0, NoText), count, <<>>)
                      ELSE IF ~pagination.hasMore
                      THEN Decision(TRUE, Return(data.val), count, <<>>)
                      ELSE Decision(FALSE, Unset, count, Extend(<<>>, data.val.events))

\* one turn of the loop, from the return of public_search: a failed page
\* raises out of public_search_all
NextPageSkipFailed(data, count, evs) ==
    IF data.kind = "raise" THEN Decision(FALSE, Unset, count, evs)
    ELSE Decision(FALSE, Unset, count, Extend(evs, data.val.events))

NextPage(data, count, evs) ==
    IF data.kind = "raise" THEN Decision(TRUE, data, count, evs)
    ELSE Decision(FALSE, Unset, count, Extend(evs, data.val.events))

\* return PublicSearchResponse(events=events)
Aggregated(evs) == Return(Response(evs, NoPagination))

(***************************************************************************)
(* models.py: parse_flexible_datetime.  A timestamp string is a sequence   *)
(* of pieces: "D" a date YYYY-MM-DD, "H" a time HH:MM:SS, the separators   *)
(* " " and "T", the timezones "+00", "-00" and the minutes ":00", and the  *)
(* words of a month-name date ("April", "1,", "2023"); no piece other      *)
(* than " " holds a space, none other than "T" the letter T.               *)
(***************************************************************************)
NoValue == [t |-> "none"]
NoValidated == [closedTime |-> NoValue, umaEndDate |-> NoValue]
Bool(b) == [t |-> "bool", b |-> b]
Datetime(chars) == [t |-> "datetime", chars |-> chars]
Str(chars) == PyStr(Text(chars, NoDoc))

\* ' ' in value, 'T' in value
Contains(chars, c) == \E i \in 1..Len(chars) : chars[i] = c

\* value.replace(' ', 'T', 1)
RECURSIVE ReplaceFirstSpace(_)
ReplaceEverySpace(chars) ==
    [i \in 1..Len(chars) |-> IF chars[i] = " " THEN "T" ELSE chars[i]]

ReplaceFirstSpace(chars) ==
    IF chars = <<>> THEN <<>>
    ELSE IF Head(chars) = " " THEN <<"T">> \o Tail(chars)
    ELSE <<Head(chars)>> \o ReplaceFirstSpace(Tail(chars))

\* value.endswith(suffix)
EndsWith(chars, suffix) == chars # <<>> /\ chars[Len(chars)] = suffix

ParseNonStringAsNone(v) ==
    IF v.t = "null" \/ v.t = "datetime" THEN v
    ELSE IF v.t = "str"
    THEN LET separated == IF Contains(v.chars, " ") /\ ~Contains(v.chars, "T")
                          THEN ReplaceFirstSpace(v.chars) ELSE v.chars
             completed == IF EndsWith(separated, "+00") \/ EndsWith(separated, "-00")
                          THEN Append(separated, ":00") ELSE separated
         IN  Str(completed)
    ELSE None

parse_flexible_datetime(v) ==
    IF v.t = "null" \/ v.t = "datetime" THEN v
    ELSE IF v.t = "str"
    THEN LET separated == IF Contains(v.chars, " ") /\ ~Contains(v.chars, "T")
                          THEN ReplaceFirstSpace(v.chars) ELSE v.chars
             completed == IF EndsWith(separated, "+00") \/ EndsWith(separated, "-00")
                          THEN Append(separated, ":00") ELSE separated
         IN  Str(completed)
    ELSE v

(***************************************************************************)
(* models.py: the entities as constructed from keyword arguments.  The     *)
(* arguments are the keys given (wire names, or field names, which         *)
(* populate_by_name admits as well) and the values of the keys whose       *)
(* value matters; the other mandatory keys hold a valid str when given,    *)
(* "liquidity" a float and "active" a bool.                                *)
(***************************************************************************)
Kwargs(keys, outcomes, clobTokenIds, closedTime, umaEndDate, markets, tags) ==
    [t |-> "kwargs", keys |-> keys, outcomes |-> outcomes, clobTokenIds |-> clobTokenIds,
     closedTime |-> closedTime, umaEndDate |-> umaEndDate, markets |-> markets,
     tags |-> tags]

InvalidModel == Raise("pydantic.ValidationError", 0, NoText)

\* a field is given under its alias or under its name
Given(data, alias, name) == alias \in data.keys \/ name \in data.keys

\* the optional fields of Market, all of which default to None
MarketOptionalFields ==
    {"twitter_card_image", "resolution_source", "end_date_iso", "category", "amm_type",
     "liquidity", "volume", "group_item_title", "group_item_threshold", "question_id",
     "rewards_min_size", "rewards_max_spread", "spread", "last_trade_price", "best_bid",
     "best_ask", "event_id"}

\* active: bool = True, closed / archived / restricted: bool = False
MarketFlags(data) ==
    [active |-> IF "active" \in data.keys THEN FALSE ELSE TRUE,
     closed |-> FALSE, archived |-> FALSE, restricted |-> FALSE]

\* Union[List[str], str]
IsStrList(v) ==
    v.t = "list" /\ \A i \in 1..Len(v.items) : v.items[i].t = "str"
IsStrListOnly(v) == IsStrList(v)
IsStrListOrStr(v) == IsStrList(v) \/ v.t = "str"

MarketOptionalZero(data) ==
    [f \in MarketOptionalFields |->
        IF f = "liquidity" /\ "liquidity" \in data.keys THEN Num(1) ELSE Num(0)]

MarketOptional(data) ==
    [f \in MarketOptionalFields |->
        IF f = "liquidity" /\ "liquidity" \in data.keys THEN Num(1) ELSE None]

MarketEntity(data) ==
    [t |-> "model", cls |-> "Market", outcomes |-> data.outcomes,
     clob_token_ids |-> data.clobTokenIds, optional |-> MarketOptional(data),
     flags |-> MarketFlags(data)]

\* Market(**data)
MarketModel(data) ==
    IF /\ "id" \in data.keys
       /\ "question" \in data.keys
       /\ Given(data, "conditionId", "condition_id")
       /\ "slug" \in data.keys
       /\ "outcomes" \in data.keys
       /\ Given(data, "clobTokenIds", "clob_token_ids")
       /\ IsStrListOrStr(data.outcomes)
       /\ IsStrListOrStr(data.clobTokenIds)
    THEN Return(MarketEntity(data))
    ELSE InvalidModel

\* pydantic's validation of an Optional[datetime] field: None, a datetime, or
\* a string in ISO 8601 form, whose timezone, when it has one, has its minutes
IsIsoDatetime(chars) ==
    \/ /\ Len(chars) = 3
       /\ chars[1] = "D" /\ chars[2] \in {"T", " "} /\ chars[3] = "H"
    \/ /\ Len(chars) = 5
       /\ chars[1] = "D" /\ chars[2] \in {"T", " "} /\ chars[3] = "H"
       /\ chars[4] \in {"+00", "-00"} /\ chars[5] = ":00"

DatetimeField(v) ==
    IF v.t = "null" \/ v.t = "datetime" THEN Return(v)
    ELSE IF v.t = "str" /\ IsIsoDatetime(v.chars) THEN Return(Datetime(v.chars))
    ELSE InvalidModel

\* what reaches the datetime validation of closed_time (FlexibleDatetime: the
\* BeforeValidator has run) and of uma_end_date (Optional[datetime]); a field
\* that is not given takes its default without validation
ClosedTimeValidated(data) ==
    IF "closedTime" \in data.keys THEN parse_flexible_datetime(data.closedTime) ELSE NoValue
UmaEndDateValidated(data) ==
    IF "umaEndDate" \in data.keys THEN data.umaEndDate ELSE NoValue

Validated(cls, data) ==
    IF cls = "PublicSearchMarket"
    THEN [closedTime |-> ClosedTimeValidated(data), umaEndDate |-> UmaEndDateValidated(data)]
    ELSE NoValidated

\* PublicSearchMarket(**data)
PublicSearchMarketModel(data) ==
    IF /\ "id" \in data.keys
       /\ "question" \in data.keys
       /\ Given(data, "conditionId", "condition_id")
       /\ "slug" \in data.keys
    THEN LET closed_time == IF "closedTime" \in data.keys
                            THEN DatetimeField(ClosedTimeValidated(data)) ELSE Return(None)
             uma_end_date == IF "umaEndDate" \in data.keys
                             THEN DatetimeField(UmaEndDateValidated(data)) ELSE Return(None)
         IN  IF closed_time.kind = "raise" \/ uma_end_date.kind = "raise"
             THEN InvalidModel
             ELSE Return([t |-> "model", cls |-> "PublicSearchMarket",
                          closed_time |-> closed_time.val,
                          uma_end_date |-> uma_end_date.val])
    ELSE InvalidModel

\* List[cls] = []: the default, and the validation of a value that is given
DefaultCollectionNone == None
DefaultCollection == List(<<>>)

Collection(cls, v) ==
    IF v.t # "list" THEN InvalidModel
    ELSE LET items == ConstructItems(cls, v.items, <<>>)
         IN  IF items.kind = "raise" THEN InvalidModel ELSE items

\* Event(**data)
EventModel(data) ==
    IF EventFields \subseteq data.keys
    THEN LET markets == IF "markets" \in data.keys
                        THEN Collection("Market", data.markets)
                        ELSE Return(DefaultCollection)
             tags == IF "tags" \in data.keys
                     THEN Collection("Tag", data.tags) ELSE Return(DefaultCollection)
         IN  IF markets.kind = "raise" \/ tags.kind = "raise" THEN InvalidModel
             ELSE Return([t |-> "model", cls |-> "Event", markets |-> markets.val,
                          tags |-> tags.val])
    ELSE InvalidModel

\* PublicSearchEvent(**data)
PublicSearchEventModel(data) ==
    IF PublicSearchEventFields \subseteq data.keys
    THEN LET markets == IF "markets" \in data.keys
                        THEN Collection("PublicSearchMarket", data.markets)
                        ELSE Return(DefaultCollection)
         IN  IF markets.kind = "raise" THEN InvalidModel
             ELSE Return([t |-> "model", cls |-> "PublicSearchEvent",
                          markets |-> markets.val])
    ELSE InvalidModel

\* cls(**data) for the entities above
Build(cls, data) ==
    CASE cls = "Market" -> MarketModel(data)
      [] cls = "PublicSearchMarket" -> PublicSearchMarketModel(data)
      [] cls = "Event" -> EventModel(data)
      [] cls = "PublicSearchEvent" -> PublicSearchEventModel(data)

(***************************************************************************)
(* The inputs: what callers pass and what the transport answers.           *)
(***************************************************************************)
RECURSIVE SeqsUpTo(_, _)
SeqsUpTo(S, n) ==
    IF n = 0 THEN {<<>>}
    ELSE LET shorter == SeqsUpTo(S, n - 1)
         IN  shorter \cup {Append(q, x) : q \in shorter, x \in S}

PathChars == {"/", "market", "event", "x"}
Urls == {Url(TRUE, path) : path \in SeqsUpTo(PathChars, MaxPathLen)} \cup {Url(FALSE, <<>>)}

LimitOverrides == {0, 1, 2}
PageOverrides == {3}
ParamSets ==
    {Params({}, 0, 0)}
    \cup {Params({"limit_per_type"}, l, 0) : l \in LimitOverrides}
    \cup {Params({"page"}, 0, p) : p \in PageOverrides}
    \cup {Params({"limit_per_type", "page"}, l, p) : l \in LimitOverrides, p \in PageOverrides}

Modes == {"sync", "async"}
ErrorStatuses == {302, 404, 500}
ContentTypes == {"application/json; charset=utf-8", "text/plain"}

AllFields ==
    TagFields \cup MarketFields \cup EventFields \cup TeamFields \cup SportMetadataFields
    \cup SeriesFields \cup CommentFields \cup ProfileFields

EntityObjects ==
    {Obj(MarketFields, i, <<>>, NoPagination) : i \in 1..2}
    \cup {Obj(EventFields, 1, <<>>, NoPagination),
          Obj(AllFields, 1, <<>>, NoPagination),
          Obj({"marketTypes"}, 2, <<>>, NoPagination),
          Obj({"id", "question"}, 1, <<>>, NoPagination),
          Obj({}, 0, <<>>, NoPagination)}

\* event 0 is an item that is not a valid PublicSearchEvent
PageEvents == {<<>>, <<1>>, <<2, 1>>, <<0>>}
Totals == (0..MaxTotal) \cup {2 * DefaultLimitPerType, 2 * DefaultLimitPerType + 5}
Paginations ==
    {Pagination({"totalResults", "hasMore"}, n, more) : n \in Totals, more \in BOOLEAN}
    \cup {Pagination({"hasMore"}, 0, FALSE), Pagination({"totalResults"}, 1, FALSE)}
SearchObjects ==
    {Obj({"events", "pagination"}, 0, ev, pg) : ev \in PageEvents, pg \in Paginations}
    \cup {Obj({"events"}, 0, ev, NoPagination) : ev \in PageEvents}

Lists ==
    {List(<<>>), List(<<Num(1)>>)}
    \cup {List(<<o>>) : o \in EntityObjects}
    \cup {List(<<Obj(MarketFields, 1, <<>>, NoPagination),
                 Obj(MarketFields, 2, <<>>, NoPagination)>>)}

Strings == {<<>>, <<"a">>, <<Q, "a", Q>>, <<Q, Q, "a", Q, Q>>, <<Q, "a">>, <<"a", Q, "a">>}

\* the documents the search route answers with: search responses and a few
\* documents of another shape; and those the other routes answer with:
\* entities, lists of entities and a few documents of another shape
SearchDocuments ==
    SearchObjects
    \cup {Obj({}, 0, <<>>, NoPagination), Obj(MarketFields, 1, <<>>, NoPagination),
          List(<<>>), None}
EntityDocuments ==
    EntityObjects \cup Lists
    \cup {None, Num(1),
          Obj({"events", "pagination"}, 0, <<1>>,
              Pagination({"totalResults", "hasMore"}, 1, FALSE))}
Bodies(documents) ==
    {Text(<<>>, d) : d \in documents} \cup {Text(c, NoDoc) : c \in Strings}

ErrorBodies == {Text(<<>>, Obj({}, 0, <<>>, NoPagination)), Text(<<Q, "a", Q>>, NoDoc)}

\* a transport error; 200 with any body; 204 without one; an error status
Outcomes(documents) ==
    {TransportError}
    \cup {HttpResponse(200, ct, b) : ct \in ContentTypes, b \in Bodies(documents)}
    \cup {HttpResponse(204, "", Text(<<>>, NoDoc))}
    \cup {HttpResponse(st, ct, b) : st \in ErrorStatuses, ct \in ContentTypes, b \in ErrorBodies}
SearchOutcomes == Outcomes(SearchDocuments)
EntityOutcomes == Outcomes(EntityDocuments)
TransportOutcomes(route) ==
    IF route = PUBLIC_SEARCH THEN SearchOutcomes ELSE EntityOutcomes

\* the arguments of parse_flexible_datetime: every string of up to MaxStrLen
\* pieces, the month-name dates of the test suite, and values of every other
\* type
DatetimePieces == {"D", "H", " ", "T", "+00", "-00"}
MonthNameStrings ==
    {<<"April", "T", "1,", " ", "2023">>, <<"April", " ", "1,", " ", "2023">>,
     <<"MAY", "T", "8,", " ", "2022">>}
NonStrings ==
    {None, Datetime(<<"D", "T", "H">>), Num(1), Bool(TRUE),
     Obj({}, 0, <<>>, NoPagination), List(<<>>)}
ParseArguments ==
    {Str(c) : c \in SeqsUpTo(DatetimePieces, MaxStrLen) \cup MonthNameStrings}
    \cup NonStrings

\* the keyword arguments of the constructors
UnionValues ==
    {Str(<<"A">>), List(<<Str(<<"A">>), Str(<<"B">>)>>), List(<<>>), Num(1)}
TimestampValues ==
    {None, Str(<<"D", "T", "H">>), Str(<<"D", " ", "H", "+00">>),
     Str(<<"D", "T", "H", "-00">>), Str(<<"D", "T", "H", "+00", ":00">>),
     Str(<<"April", "T", "1,", " ", "2023">>)}
MarketItems ==
    {None, List(<<>>), List(<<Obj(MarketFields, 1, <<>>, NoPagination)>>),
     List(<<Obj({"id"}, 1, <<>>, NoPagination)>>)}
TagItems == {None, List(<<>>), List(<<Obj(TagFields, 1, <<>>, NoPagination)>>)}

\* the values a key may take: NoValue when the key is not given
ValuesOf(keys, key, values) == IF key \in keys THEN values ELSE {NoValue}

MarketKeys ==
    {"id", "question", "conditionId", "condition_id", "slug", "outcomes", "clobTokenIds",
     "liquidity", "active"}
MarketKwargs ==
    UNION {{Kwargs(keys, outcomes, clobTokenIds, NoValue, NoValue, NoValue, NoValue) :
               outcomes \in ValuesOf(keys, "outcomes", UnionValues),
               clobTokenIds \in ValuesOf(keys, "clobTokenIds", UnionValues)} :
           keys \in SUBSET MarketKeys}
PublicSearchMarketKeys == PublicSearchMarketFields \cup {"closedTime", "umaEndDate"}
PublicSearchMarketKwargs ==
    UNION {{Kwargs(keys, NoValue, NoValue, closedTime, umaEndDate, NoValue, NoValue) :
               closedTime \in ValuesOf(keys, "closedTime", TimestampValues),
               umaEndDate \in ValuesOf(keys, "umaEndDate", TimestampValues)} :
           keys \in {k \in SUBSET PublicSearchMarketKeys :
                        Cardinality(PublicSearchMarketFields \ k) <= 1}}
EventKwargs ==
    UNION {{Kwargs(keys, NoValue, NoValue, NoValue, NoValue, markets, tags) :
               markets \in ValuesOf(keys, "markets", MarketItems),
               tags \in ValuesOf(keys, "tags", TagItems)} :
           keys \in SUBSET (EventFields \cup {"markets", "tags"})}
PublicSearchEventKwargs ==
    UNION {{Kwargs(keys, NoValue, NoValue, NoValue, NoValue, markets, NoValue) :
               markets \in ValuesOf(keys, "markets", MarketItems)} :
           keys \in SUBSET (PublicSearchEventFields \cup {"markets"})}
KwargsOf(cls) ==
    CASE cls = "Market" -> MarketKwargs
      [] cls = "PublicSearchMarket" -> PublicSearchMarketKwargs
      [] cls = "Event" -> EventKwargs
      [] cls = "PublicSearchEvent" -> PublicSearchEventKwargs
Constructors == {"Market", "PublicSearchMarket", "Event", "PublicSearchEvent"}

NoOperation == Operation("", "", "", "")
NoUrl == Url(FALSE, <<>>)
HttpRequest(route, slug, page, limit_per_type) ==
    [route |-> route, slug |-> slug, page |-> page, limit_per_type |-> limit_per_type]
NoRequest == HttpRequest("", <<>>, 0, 0)
Exchange(out, res) == [out |-> out, res |-> res]
NoExchange == Exchange(NoOutcome, Unset)

\* resolve_url and the two lookups it makes
ResolveUrlOperation == Operation("resolve_url", "", "", "")
MarketsGetBySlugOperation ==
    Operation("markets.get_by_slug", MARKETS_BY_SLUG, "market_by_slug", "Market")
EventsGetBySlugOperation ==
    Operation("events.get_by_slug", EVENTS_BY_SLUG, "single", "Event")

\* the call as the other variant makes it: its operation, its position, the
\* request it is about to send or waits on, the requests it has sent and
\* its outcome
Twin(operation, p, pend, reqs, outcome) ==
    [op |-> operation, pc |-> p, pending |-> pend, requests |-> reqs, result |-> outcome]
NoTwin == Twin(NoOperation, "idle", NoRequest, <<>>, Unset)

Init ==
    /\ handle = "open"
    /\ value = NoValue
    /\ validated = NoValidated
    /\ mode = "sync"
    /\ op = NoOperation
    /\ pc = "idle"
    /\ url = NoUrl
    /\ params = NoParams
    /\ api_params = NoApiParams
    /\ page_count = NoPageCount
    /\ events = <<>>
    /\ pending = NoRequest
    /\ requests = <<>>
    /\ exchange = NoExchange
    /\ lookups = <<>>
    /\ fetched = <<>>
    /\ first = Unset
    /\ twin = NoTwin
    /\ result = Unset

\* the state at the start of a call
Begin(m, operation) ==
    /\ pc = "idle"
    /\ handle = "closed" => m = mode
    /\ UNCHANGED << handle, value, validated >>
    /\ mode' = m
    /\ op' = operation
    /\ requests' = <<>>
    /\ exchange' = NoExchange
    /\ lookups' = <<>>
    /\ fetched' = <<>>
    /\ first' = Unset
    /\ page_count' = NoPageCount
    /\ events' = <<>>

(***************************************************************************)
(* close(), and __exit__ / __aexit__, which call it: the facade of variant *)
(* m releases its transport handle (httpx close() / aclose()); releasing   *)
(* a released handle changes nothing.                                      *)
(***************************************************************************)
Close(m) ==
    /\ pc = "idle"
    /\ handle = "closed" => m = mode
    /\ handle' = "closed"
    /\ mode' = m
    /\ UNCHANGED << value, validated, op, pc, url, params, api_params, page_count, events,
                    pending, requests, exchange, lookups, fetched, first, twin, result >>

\* what self._http_client.request(...) does: on a closed client it raises
\* (RuntimeError) without sending anything
AnswersIgnoringClose == TransportOutcomes(pending.route)
Answers == IF handle = "closed" THEN {TransportError} ELSE TransportOutcomes(pending.route)

\* _request of the variant in use
DoRequest(out) == IF mode = "sync" THEN Request(out) ELSE AsyncRequest(out)

(***************************************************************************)
(* The other variant.  Beside the call on the facade of variant mode, the  *)
(* operation of the same name is called on the facade of the other         *)
(* variant with the same arguments, and is given the same transport        *)
(* outcomes, one for each request it makes.                                *)
(***************************************************************************)
Other(m) == IF m = "sync" THEN "async" ELSE "sync"

\* the operations of a facade and its sub-clients but resolve_url and
\* public_search_all
OpsOf(m) ==
    IF m = "sync" THEN SubClientOps \cup FacadeOps ELSE AsyncSubClientOps \cup AsyncFacadeOps

\* the operation of that name on the facade of variant m
Counterpart(m, operation) == CHOOSE o \in OpsOf(m) : o.name = operation.name

\* the call as variant m makes it: a sub-client operation, get_status, search
\* or public_search is called
TwinCallOperation(m, operation) ==
    LET o == Counterpart(m, operation)
    IN  Twin(o, "send", HttpRequest(o.route, <<>>, 0, 0), <<>>, Unset)

\* resolve_url of variant m is called
TwinCallResolveUrl(m, u) ==
    LET slug == IF m = "sync" THEN ExtractSlugFromUrl(u) ELSE AsyncExtractSlugFromUrl(u)
    IN  IF Falsy(slug)
        THEN Twin(ResolveUrlOperation, "done", NoRequest, <<>>,
                  Raise("ValidationError", 0, NoText))
        ELSE Twin(ResolveUrlOperation, "send",
                  HttpRequest(MARKETS_BY_SLUG, slug.slug, 0, 0), <<>>, Unset)

\* self._http_client.request(method, endpoint, **kwargs) is called
TwinSendRequest ==
    IF twin.pc = "send"
    THEN [twin EXCEPT !.requests = Append(@, twin.pending), !.pc = "wait"]
    ELSE twin

\* the transport outcome reaches the call of variant m
TwinReceive(m, out) ==
    LET res == IF m = "sync" THEN Request(out) ELSE AsyncRequest(out)
    IN  IF twin.pc # "wait" THEN twin
        ELSE IF twin.op # ResolveUrlOperation
        THEN [twin EXCEPT !.pc = "done", !.result = Perform(m, twin.op, res)]
        ELSE IF twin.pending.route = MARKETS_BY_SLUG
        THEN LET lookup == Perform(m, MarketsGetBySlugOperation, res)
                 step == IF m = "sync" THEN AfterMarketLookup(lookup)
                         ELSE AsyncAfterMarketLookup(lookup)
             IN  IF step.done
                 THEN [twin EXCEPT !.pc = "done", !.result = step.result]
                 ELSE [twin EXCEPT !.pc = "send",
                                   !.pending = HttpRequest(EVENTS_BY_SLUG,
                                                           twin.pending.slug, 0, 0)]
        ELSE LET lookup == Perform(m, EventsGetBySlugOperation, res)
                 step == IF m = "sync" THEN AfterEventLookup(lookup)
                         ELSE AsyncAfterEventLookup(lookup)
             IN  [twin EXCEPT !.pc = "done", !.result = step.result]

(***************************************************************************)
(* A sub-client operation, get_status, search or public_search.            *)
(***************************************************************************)
CallOperation(m, operation) ==
    /\ Begin(m, operation)
    /\ pending' = HttpRequest(operation.route, <<>>, 0, 0)
    /\ twin' = TwinCallOperation(Other(m), operation)
    /\ pc' = "send"
    /\ result' = Unset
    /\ url' = NoUrl
    /\ params' = NoParams
    /\ api_params' = NoApiParams

\* self._http_client.request(method, endpoint, **kwargs) is called
SendRequest ==
    /\ pc = "send"
    /\ requests' = Append(requests, pending)
    /\ exchange' = NoExchange
    /\ pc' = "wait"
    /\ url' = NoUrl
    /\ twin' = TwinSendRequest
    /\ UNCHANGED << handle, value, validated, mode, op, params, api_params, page_count, events, pending,
                    lookups, fetched, first, result >>

\* the response, or the exception, of the transport reaches the operation,
\* which decodes it or lets the exception of _request through
ReceiveOperationRetryOnce(out) ==
    /\ pc = "wait"
    /\ op.shape # ""
    /\ twin' = TwinReceive(Other(mode), out)
    /\ LET res == DoRequest(out)
       IN  /\ exchange' = Exchange(out, res)
           /\ IF res.kind = "raise" /\ Len(requests) = 1
              THEN pc' = "send" /\ UNCHANGED result
              ELSE pc' = "done" /\ result' = Perform(mode, op, res)
    /\ UNCHANGED << handle, value, validated, mode, op, url, params, api_params, page_count, events, pending,
                    requests, lookups, fetched, first >>

ReceiveOperation(out) ==
    /\ pc = "wait"
    /\ op.shape # ""
    /\ twin' = TwinReceive(Other(mode), out)
    /\ LET res == DoRequest(out)
       IN  /\ exchange' = Exchange(out, res)
           /\ result' = Perform(mode, op, res)
    /\ pc' = "done"
    /\ UNCHANGED << handle, value, validated, mode, op, url, params, api_params, page_count, events, pending,
                    requests, lookups, fetched, first >>

(***************************************************************************)
(* resolve_url.                                                            *)
(***************************************************************************)
CallResolveUrl(m, u) ==
    /\ Begin(m, ResolveUrlOperation)
    /\ url' = u
    /\ twin' = TwinCallResolveUrl(Other(m), u)
    /\ params' = NoParams
    /\ api_params' = NoApiParams
    /\ LET slug == IF m = "sync" THEN ExtractSlugFromUrl(u) ELSE AsyncExtractSlugFromUrl(u)
       IN  IF Falsy(slug)
           THEN /\ result' = Raise("ValidationError", 0, NoText)
                /\ pending' = NoRequest
                /\ pc' = "done"
           ELSE /\ result' = Unset
                /\ pending' = HttpRequest(MARKETS_BY_SLUG, slug.slug, 0, 0)
                /\ pc' = "send"

ReceiveMarketLookup(out) ==
    /\ pc = "wait"
    /\ op = ResolveUrlOperation
    /\ pending.route = MARKETS_BY_SLUG
    /\ twin' = TwinReceive(Other(mode), out)
    /\ LET res == DoRequest(out)
           lookup == Perform(mode, MarketsGetBySlugOperation, res)
           step == IF mode = "sync" THEN AfterMarketLookup(lookup)
                   ELSE AsyncAfterMarketLookup(lookup)
       IN  /\ exchange' = Exchange(out, res)
           /\ lookups' = Append(lookups, lookup)
           /\ IF step.done
              THEN /\ result' = step.result
                   /\ pc' = "done"
                   /\ UNCHANGED pending
              ELSE /\ pending' = HttpRequest(EVENTS_BY_SLUG, pending.slug, 0, 0)
                   /\ pc' = "send"
                   /\ UNCHANGED result
    /\ UNCHANGED << handle, value, validated, mode, op, url, params, api_params, page_count, events, requests,
                    fetched, first >>

ReceiveEventLookup(out) ==
    /\ pc = "wait"
    /\ op = ResolveUrlOperation
    /\ pending.route = EVENTS_BY_SLUG
    /\ twin' = TwinReceive(Other(mode), out)
    /\ LET res == DoRequest(out)
           lookup == Perform(mode, EventsGetBySlugOperation, res)
           step == IF mode = "sync" THEN AfterEventLookup(lookup)
                   ELSE AsyncAfterEventLookup(lookup)
       IN  /\ exchange' = Exchange(out, res)
           /\ lookups' = Append(lookups, lookup)
           /\ result' = step.result
    /\ pc' = "done"
    /\ UNCHANGED << handle, value, validated, mode, op, url, params, api_params, page_count, events, pending,
                    requests, fetched, first >>

(***************************************************************************)
(* public_search_all (GammaClient only).                                   *)
(***************************************************************************)
PublicSearchAllOperation == Operation("public_search_all", "", "", "")
PublicSearchOperation ==
    Operation("public_search", PUBLIC_SEARCH, "single", "PublicSearchResponse")

CallPublicSearchAll(p) ==
    /\ Begin("sync", PublicSearchAllOperation)
    /\ url' = NoUrl
    /\ twin' = NoTwin
    /\ params' = p
    /\ api_params' = ApiParams(p)
    /\ pending' = HttpRequest(PUBLIC_SEARCH, <<>>, ApiParams(p).page,
                              ApiParams(p).limit_per_type)
    /\ result' = Unset
    /\ pc' = "send"

\* the loop goes on to its next page, or ends and the aggregate is returned
Continue(d, k) ==
    LET range == PageRange(d.page_count)
    IN  IF k < Len(range)
        THEN /\ api_params' = [api_params EXCEPT !.page = range[k + 1]]
             /\ pending' = HttpRequest(PUBLIC_SEARCH, <<>>, range[k + 1],
                                       api_params.limit_per_type)
             /\ pc' = "send"
             /\ UNCHANGED result
        ELSE /\ result' = Aggregated(d.events)
             /\ pc' = "done"
             /\ UNCHANGED << api_params, pending >>

ReceiveFirstPage(out) ==
    /\ pc = "wait"
    /\ op = PublicSearchAllOperation
    /\ Len(requests) = 1
    /\ LET res == Request(out)
           data == Perform("sync", PublicSearchOperation, res)
           d == FirstPage(data, api_params)
       IN  /\ d.page_count <= MaxPageCount
           /\ exchange' = Exchange(out, res)
           /\ first' = data
           /\ fetched' = IF data.kind = "return" THEN << data.val.events >> ELSE <<>>
           /\ page_count' = d.page_count
           /\ events' = d.events
           /\ IF d.done
              THEN /\ result' = d.result
                   /\ pc' = "done"
                   /\ UNCHANGED << api_params, pending >>
              ELSE Continue(d, 0)
    /\ UNCHANGED << handle, value, validated, mode, op, url, params, requests, lookups, twin >>

ReceiveNextPage(out) ==
    /\ pc = "wait"
    /\ op = PublicSearchAllOperation
    /\ Len(requests) > 1
    /\ LET res == Request(out)
           data == Perform("sync", PublicSearchOperation, res)
           d == NextPage(data, page_count, events)
       IN  /\ exchange' = Exchange(out, res)
           /\ fetched' = IF data.kind = "return"
                         THEN Append(fetched, data.val.events) ELSE fetched
           /\ events' = d.events
           /\ IF d.done
              THEN /\ result' = d.result
                   /\ pc' = "done"
                   /\ UNCHANGED << api_params, pending >>
              ELSE Continue(d, Len(requests) - 1)
    /\ UNCHANGED << handle, value, validated, mode, op, url, params, page_count, requests, lookups, first,
                    twin >>

(***************************************************************************)
(* parse_flexible_datetime called on a value.                              *)
(***************************************************************************)
ParseFlexibleDatetimeOperation == Operation("parse_flexible_datetime", "", "", "")

CallParseFlexibleDatetime(v) ==
    /\ pc = "idle"
    /\ op' = ParseFlexibleDatetimeOperation
    /\ value' = v
    /\ result' = Return(parse_flexible_datetime(v))
    /\ pc' = "done"
    /\ UNCHANGED << handle, validated, mode, url, params, api_params, page_count, events,
                    pending, requests, exchange, lookups, fetched, first, twin >>

(***************************************************************************)
(* An entity constructed from keyword arguments.                           *)
(***************************************************************************)
ConstructOperation(cls) == Operation("construct", "", "", cls)

CallConstruct(cls, data) ==
    /\ pc = "idle"
    /\ op' = ConstructOperation(cls)
    /\ value' = data
    /\ validated' = Validated(cls, data)
    /\ result' = Build(cls, data)
    /\ pc' = "done"
    /\ UNCHANGED << handle, mode, url, params, api_params, page_count, events, pending,
                    requests, exchange, lookups, fetched, first, twin >>

Next ==
    \/ \E operation \in SubClientOps \cup FacadeOps : CallOperation("sync", operation)
    \/ \E operation \in AsyncSubClientOps \cup AsyncFacadeOps : CallOperation("async", operation)
    \/ \E m \in Modes, u \in Urls : CallResolveUrl(m, u)
    \/ \E p \in ParamSets : CallPublicSearchAll(p)
    \/ pc = "idle" /\ \E v \in ParseArguments : CallParseFlexibleDatetime(v)
    \/ pc = "idle" /\ \E cls \in Constructors : \E data \in KwargsOf(cls) :
                          CallConstruct(cls, data)
    \/ \E m \in Modes : Close(m)
    \/ SendRequest
    \/ \E out \in Answers : ReceiveOperation(out)
    \/ \E out \in Answers : ReceiveMarketLookup(out)
    \/ \E out \in Answers : ReceiveEventLookup(out)
    \/ \E out \in Answers : ReceiveFirstPage(out)
    \/ \E out \in Answers : ReceiveNextPage(out)

Spec == Init /\ [][Next]_vars

(***************************************************************************)
(* Properties.                                                             *)
(***************************************************************************)
Done == pc = "done"
IsResolveUrl == op = ResolveUrlOperation
IsSearchAll == op = PublicSearchAllOperation

\* the status of the last response is outside 200..299
ErrorStatus == exchange.out.kind = "resp" /\ exchange.out.status \notin 200..299

\* C1: in both variants and for every endpoint, a 404 answer makes _request
\* raise NotFoundError with status code 404, any other status outside 2xx makes
\* it raise GammaAPIError with that status code and the body text of the
\* response, and no decoded body reaches the caller: _request returns nothing,
\* and outside resolve_url (which swallows the error) the call ends with
\* that error.
StatusErrorsRaised ==
    ErrorStatus =>
        /\ exchange.res.kind = "raise"
        /\ exchange.out.status = 404 =>
              /\ exchange.res.exc = "NotFoundError"
              /\ exchange.res.status = 404
        /\ exchange.out.status # 404 =>
              /\ exchange.res.exc = "GammaAPIError"
              /\ exchange.res.status = exchange.out.status
              /\ exchange.res.text = exchange.out.body
        /\ ~IsResolveUrl => (Done /\ result = exchange.res)

StatusErrorsRaisedWitness ==
    /\ Done
    /\ mode = "async"
    /\ op.name = "tags.get_by_id"
    /\ exchange.out.kind = "resp"
    /\ exchange.out.status = 500
    /\ exchange.out.ctype = "text/plain"
    /\ result.exc = "GammaAPIError"
    /\ result.status = 500
    /\ result.text = Text(<<Q, "a", Q>>, NoDoc)

\* C2: whenever a call ends with an exception, the exception is a
\* NotFoundError, a GammaAPIError, a ValidationError or a model-construction
\* (pydantic) validation error.
AllFailuresNormalized ==
    (Done /\ result.kind = "raise") =>
        result.exc \in {"NotFoundError", "GammaAPIError", "ValidationError",
                        "pydantic.ValidationError"}

(***************************************************************************)
(* The path of a URL read position by position: its first segment starts   *)
(* at the first character that is not a slash, its last segment ends at    *)
(* the last one, and it has two segments when a slash lies between them.   *)
(***************************************************************************)
NonSlash(path) == {i \in 1..Len(path) : path[i] # "/"}
Slashes(path) == {i \in 1..Len(path) : path[i] = "/"}
Least(S) == CHOOSE i \in S : \A j \in S : i <= j
Greatest(S) == CHOOSE i \in S : \A j \in S : j <= i
Inner(path) ==
    {i \in Slashes(path) : Least(NonSlash(path)) < i /\ i < Greatest(NonSlash(path))}
FirstSegment(path) ==
    SubSeq(path, Least(NonSlash(path)), Least(Inner(path)) - 1)
LastSegment(path) ==
    SubSeq(path, Greatest(Inner(path)) + 1, Greatest(NonSlash(path)))
Resolvable(u) ==
    /\ u.parses
    /\ NonSlash(u.path) # {}
    /\ Inner(u.path) # {}
    /\ FirstSegment(u.path) \in {<<"market">>, <<"event">>}

\* C3: resolve_url, in both variants, as it stands before any request is sent:
\* for a URL whose path has fewer than two segments or whose first segment is
\* neither "market" nor "event" the call has failed with ValidationError and
\* no request was issued; for every other URL the slug of the request about to
\* be sent is the last path segment.  A ValidationError never comes with a
\* request.
UrlValidatedBeforeAnyRequest ==
    IsResolveUrl =>
        /\ requests = <<>> =>
              IF Resolvable(url)
              THEN /\ pc = "send"
                   /\ pending.route = MARKETS_BY_SLUG
                   /\ pending.slug = LastSegment(url.path)
              ELSE /\ Done
                   /\ result.kind = "raise"
                   /\ result.exc = "ValidationError"
        /\ (result.kind = "raise" /\ result.exc = "ValidationError") => requests = <<>>

UrlValidatedBeforeAnyRequestWitness ==
    /\ IsResolveUrl
    /\ mode = "async"
    /\ url = Url(TRUE, <<"/", "x", "/", "market">>)
    /\ Done
    /\ result.exc = "ValidationError"
    /\ requests = <<>>

\* a Market, an Event or None
IsMarketEventOrNone(v) ==
    v.t = "null" \/ (v.t = "model" /\ v.cls \in {"Market", "Event"})

\* C4: resolve_url with a slug extracted: the first request is the market
\* lookup-by-slug; the event lookup-by-slug is requested, or about to be, only
\* once the market lookup has raised, never after it returned; at most the two
\* requests are made; and whatever the transport answered the call ends by
\* returning a Market, an Event or None, never by raising.
MarketThenEventNeverRaises ==
    (IsResolveUrl /\ (requests # <<>> \/ pc = "send")) =>
        /\ requests # <<>> => requests[1].route = MARKETS_BY_SLUG
        /\ lookups = <<>> => pending.route = MARKETS_BY_SLUG
        /\ Len(requests) <= 2
        /\ (Len(requests) = 2 \/ pending.route = EVENTS_BY_SLUG) =>
              /\ pending.route = EVENTS_BY_SLUG
              /\ lookups # <<>>
              /\ lookups[1].kind = "raise"
        /\ Len(requests) = 2 => requests[2].route = EVENTS_BY_SLUG
        /\ (lookups # <<>> /\ lookups[1].kind = "return") =>
              /\ Done
              /\ Len(requests) = 1
              /\ result = lookups[1]
        /\ Done =>
              /\ result.kind = "return"
              /\ IsMarketEventOrNone(result.val)

MarketThenEventNeverRaisesWitness ==
    /\ IsResolveUrl
    /\ Done
    /\ Len(requests) = 2
    /\ Len(lookups) = 2
    /\ lookups[1].exc = "TypeError"
    /\ lookups[2].exc = "NotFoundError"
    /\ result = Return(None)

\* C5: markets.get_by_slug, in both variants, on a response _request decoded:
\* an object body yields the Market built from it, a one-element array yields
\* what its element alone yields, an empty array yields None and no error.
MarketBySlugShapes ==
    (op.name = "markets.get_by_slug" /\ Done /\ exchange.res.kind = "return") =>
        LET data == exchange.res.val
        IN  /\ (data.t = "obj" /\ MarketFields \subseteq data.keys) =>
                  result = Return(Entity("Market", data.id))
            /\ (data.t = "list" /\ Len(data.items) = 1) =>
                  /\ result = Construct("Market", data.items[1])
                  /\ (data.items[1].t = "obj" /\ MarketFields \subseteq data.items[1].keys) =>
                        result = Return(Entity("Market", data.items[1].id))
            /\ (data.t = "list" /\ data.items = <<>>) => result = Return(None)

MarketBySlugShapesWitness ==
    /\ op.name = "markets.get_by_slug"
    /\ mode = "async"
    /\ Done
    /\ exchange.res.kind = "return"
    /\ exchange.res.val.t = "list"
    /\ exchange.res.val.items = <<>>
    /\ result = Return(None)

\* the least n with n * b >= a
Ceiling(a, b) == CHOOSE n \in 0..a : n * b >= a /\ \A k \in 0..(n - 1) : k * b < a

\* the first public_search returned a response with pagination and hasMore true
HasMore ==
    /\ first.kind = "return"
    /\ first.val.pagination.t = "map"
    /\ "hasMore" \in first.val.pagination.keys
    /\ first.val.pagination.hasMore

\* the first public_search returned a response without pagination, or with
\* hasMore false
NoMore ==
    /\ first.kind = "return"
    /\ \/ first.val.pagination.t = "null"
       \/ /\ first.val.pagination.t = "map"
          /\ "hasMore" \in first.val.pagination.keys
          /\ ~first.val.pagination.hasMore

\* the page numbers of the requests sent so far
Pages == [i \in 1..Len(requests) |-> requests[i].page]

\* the page of the first request: 1, or the caller's "page" parameter
FirstPageNumber == IF "page" \in params.keys THEN params.page ELSE 1

\* the pages public_search_all asks for when nothing fails
PagesToFetch ==
    << FirstPageNumber >>
    \o [i \in 1..(IF page_count > 2 THEN page_count - 2 ELSE 0) |-> i + 1]

\* C6: the page count public_search_all computes is ceil(totalResults /
\* limit_per_type), for every totalResults >= 0 and limit_per_type >= 1.
PageCountIsCeiling ==
    (IsSearchAll /\ page_count # NoPageCount /\ api_params.limit_per_type >= 1) =>
        page_count = Ceiling(first.val.pagination.totalResults, api_params.limit_per_type)

RECURSIVE Flatten(_)
Flatten(pages) == IF pages = <<>> THEN <<>> ELSE Head(pages) \o Flatten(Tail(pages))

\* C8: when public_search_all goes past the first page and returns, the events
\* it returns are the events of every page fetched, first page included, in
\* page order, none reordered, dropped or merged, and the pagination it
\* returns is None.
AggregateIsConcatenation ==
    (IsSearchAll /\ Done /\ result.kind = "return" /\ HasMore) =>
        /\ Len(fetched) = Len(requests)
        /\ result.val.t = "psr"
        /\ result.val.events = Flatten(fetched)
        /\ result.val.pagination = NoPagination

AggregateIsConcatenationWitness ==
    /\ IsSearchAll
    /\ Done
    /\ result.kind = "return"
    /\ HasMore
    /\ fetched = << <<2, 1>>, <<1>>, <<2, 1>> >>
    /\ result.val.events = <<2, 1, 1, 2, 1>>

\* C9: when the first page comes without pagination or with hasMore false,
\* exactly one request has been issued and the call returns the response of
\* the first page as it is.
FirstPageReturnedWhenNoMore ==
    (IsSearchAll /\ NoMore) =>
        /\ Len(requests) = 1
        /\ Done
        /\ result = Return(first.val)

\* a page was requested and public_search did not return a response for it
PageFailed == pc # "wait" /\ Len(fetched) < Len(requests)

\* C10: when the fetch of a page fails, public_search_all ends at once with
\* the error of that fetch: nothing is returned, the events gathered so far
\* included, and no request follows the failed one.
NoPartialSuccess ==
    (IsSearchAll /\ PageFailed) =>
        /\ Done
        /\ Len(requests) = Len(fetched) + 1
        /\ result.kind = "raise"
        /\ exchange.res.kind = "raise" => result = exchange.res
        /\ exchange.res.kind = "return" =>
              result = Construct("PublicSearchResponse", exchange.res.val)

NoPartialSuccessWitness ==
    /\ IsSearchAll
    /\ Done
    /\ Len(requests) = 3
    /\ fetched = << <<1>>, <<2, 1>> >>
    /\ result.exc = "pydantic.ValidationError"

IsParse == op = ParseFlexibleDatetimeOperation

\* a string rewritten position by position: the first space becomes "T" when
\* the string holds no "T"; ":00" follows when it ends with "+00" or "-00"
Normalized(chars) ==
    LET spaces == {i \in 1..Len(chars) : chars[i] = " "}
        letters == {i \in 1..Len(chars) : chars[i] = "T"}
        rewritten == [i \in 1..Len(chars) |->
                         IF letters = {} /\ spaces # {} /\ i = Least(spaces)
                         THEN "T" ELSE chars[i]]
    IN  IF chars # <<>> /\ chars[Len(chars)] \in {"+00", "-00"}
        THEN rewritten \o <<":00">> ELSE rewritten

\* C11: parse_flexible_datetime on a string: "D H+00" and "D H-00" come out as
\* "DTH+00:00" and "DTH-00:00"; in every string only the first space becomes
\* "T", and only when the string holds no "T"; ":00" is appended exactly when
\* the string ends with "+00" or "-00"; either rule applies without the other.
NormalizerRules ==
    (IsParse /\ Done /\ value.t = "str") =>
        /\ result = Return(Str(Normalized(value.chars)))
        /\ \A tz \in {"+00", "-00"} :
              value.chars = <<"D", " ", "H", tz>> =>
                  result.val.chars = <<"D", "T", "H", tz, ":00">>

NormalizerRulesWitness ==
    /\ IsParse
    /\ Done
    /\ value = Str(<<"D", " ", "H", "-00">>)
    /\ result = Return(Str(<<"D", "T", "H", "-00", ":00">>))

IsConstruct(cls) == op = ConstructOperation(cls)

\* C12: parse_flexible_datetime returns a datetime for a month-name date
\* ("AprilT1, 2023", "April 1, 2023", whatever the case of the month), and a
\* PublicSearchMarket given umaEndDate "AprilT1, 2023" is constructed with
\* that date as its uma_end_date.
MonthNameDatesParsed ==
    /\ (IsParse /\ Done /\ value.t = "str" /\ value.chars \in MonthNameStrings) =>
          result.val.t = "datetime"
    /\ (/\ IsConstruct("PublicSearchMarket")
        /\ Done
        /\ value.keys = PublicSearchMarketFields \cup {"umaEndDate"}
        /\ value.umaEndDate = Str(<<"April", "T", "1,", " ", "2023">>)) =>
          /\ result.kind = "return"
          /\ result.val.uma_end_date.t = "datetime"

\* C13: parse_flexible_datetime runs before the validation of umaEndDate and
\* of every other flexible timestamp field: given "D H+00" the validation is
\* handed "DTH+00:00" and the construction succeeds with a datetime there.
TimestampFieldsNormalized ==
    (IsConstruct("PublicSearchMarket") /\ Done /\ PublicSearchMarketFields \subseteq value.keys) =>
        /\ (value.keys = PublicSearchMarketFields \cup {"umaEndDate"}
            /\ value.umaEndDate = Str(<<"D", " ", "H", "+00">>)) =>
              /\ validated.umaEndDate = Str(<<"D", "T", "H", "+00", ":00">>)
              /\ result.kind = "return"
              /\ result.val.uma_end_date.t = "datetime"
        /\ (value.keys = PublicSearchMarketFields \cup {"closedTime"}
            /\ value.closedTime = Str(<<"D", " ", "H", "+00">>)) =>
              /\ validated.closedTime = Str(<<"D", "T", "H", "+00", ":00">>)
              /\ result.kind = "return"
              /\ result.val.closed_time.t = "datetime"

\* C14: parse_flexible_datetime returns every value that is not a string as
\* it is: None, a datetime, a number, a boolean, a mapping, a sequence.
NonStringsUnchanged ==
    (IsParse /\ Done /\ value.t # "str") => result = Return(value)

NonStringsUnchangedWitness ==
    /\ IsParse
    /\ Done
    /\ value = Bool(TRUE)
    /\ result = Return(Bool(TRUE))

\* a text without one pair of surrounding quotes, when it has one
StripOnePair(chars) ==
    IF Len(chars) >= 2 /\ chars[1] = Q /\ chars[Len(chars)] = Q
    THEN SubSeq(chars, 2, Len(chars) - 1) ELSE chars

\* C15: on a 2xx response whose content type is not JSON, _request returns
\* the body text without one pair of surrounding double quotes when the text
\* starts and ends with one, and the body text as it is otherwise.
OnePairOfQuotesStripped ==
    (/\ exchange.out.kind = "resp"
     /\ exchange.out.status \in 200..299
     /\ exchange.out.ctype \notin {"application/json", "application/json; charset=utf-8"}) =>
        exchange.res =
            Return(PyStr(IF exchange.out.body.doc.t = "nodoc"
                         THEN Text(StripOnePair(exchange.out.body.chars), NoDoc)
                         ELSE exchange.out.body))

\* the name of the field a wire name is the alias of
FieldName(alias) ==
    CASE alias = "conditionId" -> "condition_id"
      [] alias = "clobTokenIds" -> "clob_token_ids"
      [] OTHER -> alias
Absent(data, alias) == alias \notin data.keys /\ FieldName(alias) \notin data.keys
StrOrStrList == {Str(<<"A">>), List(<<Str(<<"A">>), Str(<<"B">>)>>), List(<<>>)}

\* C16: Market(**data) fails with a validation error when one of id, question,
\* conditionId, slug, outcomes, clobTokenIds is absent; given exactly these
\* six it succeeds with every optional field None and with active, closed,
\* archived, restricted equal to True, False, False, False.
MarketMandatoryAndDefaults ==
    (IsConstruct("Market") /\ Done) =>
        /\ (\E f \in MarketFields : Absent(value, f)) => result = InvalidModel
        /\ (/\ value.keys = MarketFields
            /\ value.outcomes \in StrOrStrList
            /\ value.clobTokenIds \in StrOrStrList) =>
              /\ result.kind = "return"
              /\ \A f \in MarketOptionalFields : result.val.optional[f] = None
              /\ result.val.flags = [active |-> TRUE, closed |-> FALSE,
                                     archived |-> FALSE, restricted |-> FALSE]

MarketMandatoryAndDefaultsWitness ==
    /\ IsConstruct("Market")
    /\ Done
    /\ value.keys = MarketFields
    /\ result.kind = "return"
    /\ result.val.optional["liquidity"] = None
    /\ result.val.flags.active

\* C17: with the six mandatory fields given, Market(**data) succeeds whether
\* outcomes and clobTokenIds are each a str or a list of str, and the entity
\* holds each value in the form it was given.
UnionFieldsKeepTheirForm ==
    (/\ IsConstruct("Market")
     /\ Done
     /\ \A f \in MarketFields : ~Absent(value, f)
     /\ value.outcomes \in StrOrStrList
     /\ value.clobTokenIds \in StrOrStrList) =>
        /\ result.kind = "return"
        /\ result.val.outcomes = value.outcomes
        /\ result.val.clob_token_ids = value.clobTokenIds

UnionFieldsKeepTheirFormWitness ==
    /\ IsConstruct("Market")
    /\ Done
    /\ value.outcomes = Str(<<"A">>)
    /\ value.clobTokenIds = List(<<Str(<<"A">>), Str(<<"B">>)>>)
    /\ result.kind = "return"
    /\ result.val.outcomes = Str(<<"A">>)
    /\ result.val.clob_token_ids = List(<<Str(<<"A">>), Str(<<"B">>)>>)

\* C18: the collections of a constructed entity are never None: Event.markets,
\* Event.tags and PublicSearchEvent.markets are sequences, empty when not
\* given; public_search returns a response whose events are the empty
\* sequence when the body has no events or the empty array, and whose
\* pagination is None when the body has none.
CollectionsNeverNull ==
    /\ (IsConstruct("Event") /\ Done) =>
          /\ (EventFields \subseteq value.keys /\ value.keys \cap {"markets", "tags"} = {}) =>
                result.kind = "return"
          /\ result.kind = "return" =>
                /\ result.val.markets.t = "list"
                /\ result.val.tags.t = "list"
                /\ "markets" \notin value.keys => result.val.markets = List(<<>>)
                /\ "tags" \notin value.keys => result.val.tags = List(<<>>)
    /\ (IsConstruct("PublicSearchEvent") /\ Done) =>
          /\ value.keys = PublicSearchEventFields => result.kind = "return"
          /\ result.kind = "return" =>
                /\ result.val.markets.t = "list"
                /\ "markets" \notin value.keys => result.val.markets = List(<<>>)
    /\ (op.name = "public_search" /\ Done /\ exchange.res.kind = "return"
        /\ exchange.res.val.t = "obj") =>
          LET body == exchange.res.val
          IN  /\ ("events" \notin body.keys \/ body.events = <<>>) =>
                    /\ result.kind = "return"
                    /\ result.val.events = <<>>
              /\ (result.kind = "return" /\ "pagination" \notin body.keys) =>
                    result.val.pagination = None

CollectionsNeverNullWitness ==
    /\ IsConstruct("Event")
    /\ Done
    /\ value.keys = EventFields
    /\ result.kind = "return"
    /\ result.val.markets = List(<<>>)
    /\ result.val.tags = List(<<>>)

\* the call in progress is an operation of a facade or of one of its sub-clients
IsClientOperation == op.name \notin {"", "parse_flexible_datetime", "construct"}
Released == handle = "closed"

\* C19 as claimed: once the transport handle is released, every facade and
\* sub-client operation ends with an error and none returns a result.
UseAfterReleaseFails ==
    (Released /\ IsClientOperation /\ Done) => result.kind = "raise"

\* C19, amended: once close(), or leaving the with block, has released the
\* handle, no request is answered by a response, and every sub-client
\* operation, get_status, search, public_search and public_search_all end
\* with GammaAPIError after one attempted request; resolve_url ends with ValidationError for a URL it
\* cannot read and otherwise returns None, both of its lookups having failed
\* with GammaAPIError.
UseAfterReleaseFailsExceptResolveUrl ==
    /\ Released => exchange.out.kind # "resp"
    /\ (Released /\ IsClientOperation /\ Done) =>
          IF IsResolveUrl
          THEN \/ result = Raise("ValidationError", 0, NoText) /\ requests = <<>>
               \/ /\ result = Return(None)
                  /\ Len(lookups) = 2
                  /\ \A i \in 1..2 : lookups[i] = Raise("GammaAPIError", 0, NoText)
          ELSE /\ result = Raise("GammaAPIError", 0, NoText)
               /\ Len(requests) = 1

UseAfterReleaseWitness ==
    /\ Released
    /\ Done
    /\ mode = "async"
    /\ op.name = "markets.list"
    /\ result = Raise("GammaAPIError", 0, NoText)

\* the requests of a kind that were handed to the transport
RequestsTo(route) == {i \in 1..Len(requests) : requests[i].route = route}
\* the call is a sub-client operation, get_status, search or public_search
IsSingleRequestOperation == IsClientOperation /\ ~IsResolveUrl /\ ~IsSearchAll

\* every operation but public_search_all: one request per call, none after a
\* failure, the failure of _request handed to the caller
\* as it is; at most one market and one event lookup in resolve_url
OneAttempt ==
    /\ IsSingleRequestOperation =>
          /\ Len(requests) <= 1
          /\ Done => Len(requests) = 1
          /\ (pc # "wait" /\ exchange.res.kind = "raise") => (Done /\ result = exchange.res)
    /\ IsResolveUrl =>
          /\ Len(requests) <= 2
          /\ Cardinality(RequestsTo(MARKETS_BY_SLUG)) <= 1
          /\ Cardinality(RequestsTo(EVENTS_BY_SLUG)) <= 1

\* C20 as claimed: no request is made twice; in particular public_search_all
\* makes at most one request per page number.
NoRetry ==
    /\ OneAttempt
    /\ IsSearchAll =>
          \A i, j \in 1..Len(requests) : i # j => requests[i].page # requests[j].page

\* C20, amended: as claimed for every other operation; public_search_all
\* makes no request after a failed one and at most one request per page
\* number among the pages of its loop, so that only the page number of the
\* caller's page parameter, which the first request carries, can be requested
\* a second time.
NoRetryButPageOverride ==
    /\ OneAttempt
    /\ IsSearchAll =>
          /\ \A i, j \in 2..Len(requests) : i # j => requests[i].page # requests[j].page
          /\ "page" \notin params.keys =>
                \A i, j \in 1..Len(requests) : i # j => requests[i].page # requests[j].page
          /\ PageFailed => Done

NoRetryWitness ==
    /\ IsSingleRequestOperation
    /\ op.name = "comments.get_by_user"
    /\ Done
    /\ Len(requests) = 1
    /\ exchange.out.kind = "exc"
    /\ result = exchange.res
    /\ result.exc = "GammaAPIError"

\* the market lookup of resolve_url has ended and produced a Market
MarketFound ==
    /\ lookups # <<>>
    /\ lookups[1].kind = "return"
    /\ lookups[1].val.t = "model"

\* C21: resolve_url returns None only after both lookups were attempted:
\* whenever the market lookup-by-slug has ended without a Market, because it
\* raised or because it came back empty, the event lookup-by-slug request is
\* issued before resolve_url returns.
EventLookupBeforeNone ==
    (IsResolveUrl /\ Done /\ lookups # <<>> /\ ~MarketFound) =>
        /\ RequestsTo(EVENTS_BY_SLUG) # {}
        /\ Len(lookups) = 2

\* the number of events page p of a result set of total events holds, at
\* limit events per page
PageSize(p, total, limit) ==
    IF total - (p - 1) * limit >= limit THEN limit
    ELSE IF total - (p - 1) * limit > 0 THEN total - (p - 1) * limit
    ELSE 0

\* every page fetched held the events the result set has for it
FullPages ==
    \A i \in 1..Len(fetched) :
        Len(fetched[i]) = PageSize(Pages[i], first.val.pagination.totalResults,
                                   api_params.limit_per_type)

\* C22: public_search_all is complete: when the first page reports hasMore
\* true and every fetch succeeds, each page p with 1 <= p <= ceil(totalResults
\* / limit_per_type) is requested exactly once, and with pages of
\* limit_per_type events the response returned holds all totalResults events,
\* whether limit_per_type divides totalResults or not.
SearchAllComplete ==
    (IsSearchAll /\ Done /\ result.kind = "return" /\ HasMore /\ "page" \notin params.keys) =>
        LET total == first.val.pagination.totalResults
            limit == api_params.limit_per_type
        IN  /\ \A p \in 1..Ceiling(total, limit) :
                   Cardinality({i \in 1..Len(requests) : Pages[i] = p}) = 1
            /\ FullPages => Len(result.val.events) = total

\* the call is an operation that both facades have
OnBothFacades == IsClientOperation /\ ~IsSearchAll

\* C23: for every operation that both GammaClient and AsyncGammaClient have
\* (the sub-client operations, get_status, search, public_search and
\* resolve_url), called with the same arguments and given the same transport
\* outcomes, the two variants are at every moment at the same point of the
\* call, have issued the same requests in the same order, are about to send
\* or wait on the same request, and end with the same result or with an
\* error of the same class and status code.
SyncAsyncEquivalent ==
    OnBothFacades =>
        /\ twin.op.name = op.name
        /\ twin.pc = pc
        /\ twin.requests = requests
        /\ pc \in {"send", "wait"} => twin.pending = pending
        /\ Done =>
              /\ twin.result.kind = result.kind
              /\ result.kind = "return" => twin.result.val = result.val
              /\ result.kind = "raise" =>
                    /\ twin.result.exc = result.exc
                    /\ twin.result.status = result.status

SyncAsyncEquivalentWitness ==
    /\ IsResolveUrl
    /\ mode = "async"
    /\ Done
    /\ Len(requests) = 2
    /\ twin.requests = requests
    /\ requests[2].route = EVENTS_BY_SLUG
    /\ result.kind = "return"
    /\ result.val.t = "model"
    /\ result.val.cls = "Event"
    /\ twin.result = result

====
